---- MODULE Spec2Model ----
(***************************************************************************)
(* Model of the analyze endpoint (src/src/app/api/analyze/route.ts): the    *)
(* POST handler that filters the posted rows, aggregates them by hour,      *)
(* content type and hashtag, ranks the aggregates and builds the action     *)
(* plan.                                                                    *)
(*                                                                          *)
(* Representation of JavaScript values:                                     *)
(*   - a loosely typed field is a record [t, n, half, s]: t is the typeof   *)
(*     tag ("undefined", "number", "string"), n + (half ? 0.5 : 0) the      *)
(*     number, s the string;                                                *)
(*   - the result of Number(..) and a key of the byHour Map is a record     *)
(*     [nan, n, half];                                                      *)
(*   - a hashtag is a sequence of one-character strings;                    *)
(*   - a Map is the sequence of its entries in insertion order;             *)
(*   - a value of toFixed(d) is kept in units of 10^-d: a rate (4 digits)   *)
(*     as an integer number of 1/10000, a score (6 digits) as the pair      *)
(*     [w, f] of its integer part and its millionths.                       *)
(***************************************************************************)
EXTENDS Integers, Sequences, FiniteSets, TLC

VARIABLES pc, body, rows, idx, byHour, byType, hashtagStats, response

vars == <<pc, body, rows, idx, byHour, byType, hashtagStats, response>>

-----------------------------------------------------------------------------
(* Bounds of the model *)

MaxRows == 3

MaxHourRows == 4

MaxTagRows == 3

MaxCadenceRows == 100

-----------------------------------------------------------------------------
(* JavaScript values *)

JsUndefined == [t |-> "undefined", n |-> 0, half |-> FALSE, s |-> ""]

JsNumber(n) == [t |-> "number", n |-> n, half |-> FALSE, s |-> ""]

JsNumberAndHalf(n) == [t |-> "number", n |-> n, half |-> TRUE, s |-> ""]

JsString(s) == [t |-> "string", n |-> 0, half |-> FALSE, s |-> s]

\* truthiness of a field value, as `v || d` and `v && ..` test it
Truthy(v) ==
    CASE v.t = "undefined" -> FALSE
      [] v.t = "number" -> ~(v.n = 0 /\ ~v.half)
      [] v.t = "string" -> v.s # ""
      [] OTHER -> TRUE

\* v || d
OrElse(v, d) == IF Truthy(v) THEN v ELSE d

NaN == [nan |-> TRUE, n |-> 0, half |-> FALSE]

Num(n) == [nan |-> FALSE, n |-> n, half |-> FALSE]

\* the strings that Number(..) reads as a decimal literal, with their value
NumericStrings == [s \in {"7", "18"} |-> IF s = "7" THEN 7 ELSE 18]

\* Number(v)
ToNumber(v) ==
    CASE v.t = "number" -> [nan |-> FALSE, n |-> v.n, half |-> v.half]
      [] v.t = "string" ->
           IF v.s = "" THEN Num(0)
           ELSE IF v.s \in DOMAIN NumericStrings THEN Num(NumericStrings[v.s])
           ELSE NaN
      [] OTHER -> NaN

\* x < y on numbers that are no NaN
NumLess(x, y) == x.n < y.n \/ (x.n = y.n /\ ~x.half /\ y.half)

\* Math.min(a, b): NaN when either is NaN
MathMin(a, b) == IF a.nan \/ b.nan THEN NaN ELSE IF NumLess(b, a) THEN b ELSE a

\* Math.max(a, b): NaN when either is NaN
MathMax(a, b) == IF a.nan \/ b.nan THEN NaN ELSE IF NumLess(a, b) THEN b ELSE a

-----------------------------------------------------------------------------
(* Map: the sequence of its entries [key, val] in insertion order *)

MapHas(m, k) == \E j \in 1..Len(m) : m[j].key = k

\* m.get(k) || d
MapGetOr(m, k, d) ==
    IF MapHas(m, k) THEN m[CHOOSE j \in 1..Len(m) : m[j].key = k].val ELSE d

\* m.set(k, v): a key already present keeps its place
MapSet(m, k, v) ==
    IF MapHas(m, k)
    THEN [j \in 1..Len(m) |-> IF m[j].key = k THEN [key |-> k, val |-> v] ELSE m[j]]
    ELSE Append(m, [key |-> k, val |-> v])

MapKeys(m) == {m[j].key : j \in 1..Len(m)}

\* Object.fromEntries(m): the properties of the object, one per key
ObjectFromEntries(m) == {m[j] : j \in 1..Len(m)}

-----------------------------------------------------------------------------
(* Numbers with a fixed number of decimals *)

RateDigits == 4

ScoreDigits == 6

RECURSIVE Pow10(_)
Pow10(d) == IF d = 0 THEN 1 ELSE 10 * Pow10(d - 1)

\* r/den (0 <= r < den) rounded to d decimals, half up, in units of 10^-d;
\* the digits are produced one at a time, the last one rounded
RECURSIVE RoundedFraction(_, _, _)
RoundedFraction(r, den, d) ==
    IF d = 0 THEN (IF 2 * r >= den THEN 1 ELSE 0)
    ELSE ((10 * r) \div den) * Pow10(d - 1) + RoundedFraction((10 * r) % den, den, d - 1)

\* (num / den).toFixed(d) for num >= 0, den > 0: integer part w and fraction f
\* in units of 10^-d
ToFixed(num, den, d) ==
    LET q == num \div den
        f == RoundedFraction(num % den, den, d)
    IN  IF f = Pow10(d) THEN [w |-> q + 1, f |-> 0] ELSE [w |-> q, f |-> f]

\* safeRate(num, den), in units of 1/10000
safeRate(num, den) ==
    IF den > 0
    THEN LET x == ToFixed(num, den, RateDigits) IN x.w * Pow10(RateDigits) + x.f
    ELSE 0

\* an integer as a number with decimals
Dec(n) == [w |-> n, f |-> 0]

\* x > y
DecGreater(x, y) == x.w > y.w \/ (x.w = y.w /\ x.f > y.f)

-----------------------------------------------------------------------------
(* Array.prototype.sort with the comparator (a, b) => num(b) - num(a), where  *)
(* nums[j] is the number the comparator reads from a[j]: descending, and     *)
(* stable (elements that compare equal keep their order).                    *)

SortDescending(a, nums) ==
    LET n == Len(a)
        Place(j) == Cardinality({k \in 1..n : DecGreater(nums[k], nums[j])})
                    + Cardinality({k \in 1..j : nums[k] = nums[j]})
    IN  [p \in 1..n |-> a[CHOOSE j \in 1..n : Place(j) = p]]

\* a.slice(0, n)
SliceHead(a, n) == SubSeq(a, 1, IF Len(a) < n THEN Len(a) ELSE n)

\* a.slice(-1)
SliceLast(a) == IF Len(a) = 0 THEN <<>> ELSE <<a[Len(a)]>>

\* faulty variant of topN: the slice is taken before the sort
topN_SliceBeforeSort(entries, n) ==
    LET head == SliceHead(entries, n)
        sorted == SortDescending(head, [j \in 1..Len(head) |-> Dec(head[j][2])])
    IN  [j \in 1..Len(sorted) |-> sorted[j][1]]

\* topN(entries, n), entries being pairs <<key, number>>
topN(entries, n) ==
    LET sorted == SortDescending(entries, [j \in 1..Len(entries) |-> Dec(entries[j][2])])
        head == SliceHead(sorted, n)
    IN  [j \in 1..Len(head) |-> head[j][1]]

-----------------------------------------------------------------------------
(* Hashtag normalization: h.replace(/[#\s]+/g, "").toLowerCase() *)

UpperCase == <<"A", "B", "C", "D", "E", "F", "G", "H", "I", "J", "K", "L", "M",
               "N", "O", "P", "Q", "R", "S", "T", "U", "V", "W", "X", "Y", "Z">>

LowerCase == <<"a", "b", "c", "d", "e", "f", "g", "h", "i", "j", "k", "l", "m",
               "n", "o", "p", "q", "r", "s", "t", "u", "v", "w", "x", "y", "z">>

\* the characters the class [#\s] matches
HashOrSpace == {"#", " ", "\t", "\n"}

\* faulty variant of StripHashAndSpace: without the g flag, only the first run
\* of '#' and whitespace is removed
StripHashAndSpace_FirstRunOnly(s) ==
    IF \A c \in 1..Len(s) : s[c] \notin HashOrSpace THEN s
    ELSE LET from == CHOOSE c \in 1..Len(s) :
                       s[c] \in HashOrSpace /\ \A b \in 1..(c - 1) : s[b] \notin HashOrSpace
             to == CHOOSE c \in from..Len(s) :
                     /\ \A b \in from..c : s[b] \in HashOrSpace
                     /\ (c = Len(s) \/ s[c + 1] \notin HashOrSpace)
         IN  SubSeq(s, 1, from - 1) \o SubSeq(s, to + 1, Len(s))

\* s.replace(/[#\s]+/g, ""): every run of '#' and whitespace is removed
StripHashAndSpace(s) == SelectSeq(s, LAMBDA c : c \notin HashOrSpace)

toLowerCaseChar(c) ==
    IF \E j \in 1..Len(UpperCase) : UpperCase[j] = c
    THEN LowerCase[CHOOSE j \in 1..Len(UpperCase) : UpperCase[j] = c]
    ELSE c

\* s.toLowerCase()
toLowerCase(s) == [j \in 1..Len(s) |-> toLowerCaseChar(s[j])]

\* the key of a hashtag
NormalizeTag(h) == toLowerCase(StripHashAndSpace(h))

-----------------------------------------------------------------------------
(* The request *)

\* a posted row; obj is FALSE for a JSON null in the list. hashtags is the
\* list of tags, [t |-> "undefined"] when the field is missing.
MetricRow(hour, contentType, hashtags, views, likes, comments, shares) ==
    [obj |-> TRUE, hour |-> hour, contentType |-> contentType,
     hashtags |-> [t |-> "array", a |-> hashtags], views |-> views,
     likes |-> likes, comments |-> comments, shares |-> shares]

NullRow ==
    [obj |-> FALSE, hour |-> JsUndefined, contentType |-> JsUndefined,
     hashtags |-> [t |-> "undefined", a |-> <<>>], views |-> JsUndefined,
     likes |-> 0, comments |-> 0, shares |-> 0]

\* what the rows field of the body holds when it is no list
\* ("badjson": the body is no JSON at all, req.json() throws;
\*  "absent": the body is null or has no rows field)
NonListKinds ==
    {"badjson", "absent", "null", "false", "zero", "emptystring",
     "true", "number", "string", "object"}

\* body?.rows is truthy
RowsTruthy(kind) == kind \in {"true", "number", "string", "object", "array"}

\* (body?.rows || []) has a filter method
HasFilter(kind) == ~RowsTruthy(kind) \/ kind = "array"

\* body?.rows || []
RowsOrEmpty(b) == IF RowsTruthy(b.kind) THEN b.rows ELSE <<>>

\* faulty variant of HasNumericViews: the typeof test is left out
HasNumericViews_AnyObject(r) == r.obj

\* r && typeof r.views === "number"
HasNumericViews(r) == r.obj /\ r.views.t = "number"

\* line 31: the working set
FilterRows(list) == SelectSeq(list, HasNumericViews)

-----------------------------------------------------------------------------
(* The aggregation pass, lines 38-61 *)

MaxHour == 23

\* line 39: the key of the row's hour bucket
HourKey(r) == MathMax(Num(0), MathMin(Num(MaxHour), ToNumber(OrElse(r.hour, JsNumber(0)))))

\* lines 40-43
AddHour(m, r) ==
    LET hAgg == MapGetOr(m, HourKey(r), [views |-> 0, posts |-> 0])
    IN  MapSet(m, HourKey(r), [views |-> hAgg.views + r.views.n, posts |-> hAgg.posts + 1])

\* faulty variant of TypeKey: no fallback for an empty or missing type
TypeKey_NoFallback(r) == r.contentType.s

\* r.contentType || "unknown"
TypeKey(r) == OrElse(r.contentType, JsString("unknown")).s

\* lines 45-51
AddType(m, r) ==
    LET tAgg == MapGetOr(m, TypeKey(r),
                         [views |-> 0, posts |-> 0, likes |-> 0, comments |-> 0, shares |-> 0])
    IN  MapSet(m, TypeKey(r),
               [views |-> tAgg.views + r.views.n, posts |-> tAgg.posts + 1,
                likes |-> tAgg.likes + r.likes, comments |-> tAgg.comments + r.comments,
                shares |-> tAgg.shares + r.shares])

\* faulty variant of AddTag: the bucket's views are set, not added to
AddTag_ViewsOverwritten(m, h, views) ==
    LET key == NormalizeTag(h)
        stat == MapGetOr(m, key, [views |-> 0, uses |-> 0])
    IN  IF key = <<>> THEN m
        ELSE MapSet(m, key, [views |-> views, uses |-> stat.uses + 1])

\* lines 54-59: one tag of a row with the given views
AddTag(m, h, views) ==
    LET key == NormalizeTag(h)
        stat == MapGetOr(m, key, [views |-> 0, uses |-> 0])
    IN  IF key = <<>> THEN m
        ELSE MapSet(m, key, [views |-> stat.views + views, uses |-> stat.uses + 1])

\* lines 53-60: for (const h of tags), from the first tag to the last
RECURSIVE AddTags(_, _, _)
AddTags(m, tags, views) ==
    IF tags = <<>> THEN m
    ELSE AddTags(AddTag(m, Head(tags), views), Tail(tags), views)

\* r.hashtags || []
TagsOf(r) == IF r.hashtags.t = "array" THEN r.hashtags.a ELSE <<>>

-----------------------------------------------------------------------------
(* Ranking and the action plan, lines 63-91 *)

TopHours == 3

TopTags == 15

TagsInAction == 5

LeaderTags == 20

MinCadence == 5

MaxCadence == 14

\* line 63
BestHours(hours) ==
    topN([j \in 1..Len(hours) |->
            <<hours[j].key, safeRate(hours[j].val.views, hours[j].val.posts)>>], TopHours)

\* lines 66-70: the score entry of one type bucket
TypeScore(e) ==
    LET v == e.val
        engagement == v.likes + v.comments * 2 + v.shares * 3
        engagementRate == safeRate(engagement, IF v.views # 0 THEN v.views ELSE v.posts)
        viewPerPost == safeRate(v.views, v.posts)
        \* viewPerPost * 0.7 + engagementRate * 0.3, in units of 1/100000
        score == viewPerPost * 7 + engagementRate * 3
    IN  [type |-> e.key, score |-> ToFixed(score, 10 * Pow10(RateDigits), ScoreDigits),
         viewPerPost |-> viewPerPost, engagementRate |-> engagementRate]

\* lines 65-71
TypeScores(types) ==
    LET scored == [j \in 1..Len(types) |-> TypeScore(types[j])]
    IN  SortDescending(scored, [j \in 1..Len(scored) |-> scored[j].score])

\* line 73
TopHashtags(stats) ==
    topN([j \in 1..Len(stats) |->
            <<stats[j].key, safeRate(stats[j].val.views, stats[j].val.uses)>>], TopTags)

\* faulty variant of HashtagLeaders: ranked by views per use, as topHashtags is
HashtagLeaders_ByRate(stats) ==
    SliceHead(SortDescending(stats, [j \in 1..Len(stats) |->
                                       Dec(safeRate(stats[j].val.views, stats[j].val.uses))]),
              LeaderTags)

\* line 90
HashtagLeaders(stats) ==
    SliceHead(SortDescending(stats, [j \in 1..Len(stats) |-> Dec(stats[j].val.views)]),
              LeaderTags)

\* faulty variant of RoundSixTenths: Math.floor in place of Math.round
RoundSixTenths_Floor(n) == (6 * n) \div 10

\* Math.round(n * 0.6)
RoundSixTenths(n) == (2 * 6 * n + 10) \div 20

\* line 83
PlannedCadence(n) ==
    LET r == RoundSixTenths(n)
        lo == IF r > MinCadence THEN r ELSE MinCadence
    IN  IF lo < MaxCadence THEN lo ELSE MaxCadence

\* a line of the action plan: its template and what fills it
ActionLine(tpl, type, hours, tags, n) ==
    [tpl |-> tpl, type |-> type, hours |-> hours, tags |-> tags, n |-> n]

DoubleDown == "Double down on ${type} content (top format)."

PostAt == "Post at ${hours.map(h => h + ':00').join(', ')} local time."

UseTags == "Use 1-3 of: ${tags.map(h => '#' + h).join(' ')}."

Deprioritize == "De-prioritize ${type} until performance improves."

Publish == "Publish ~${n} posts next 7 days with 70/20/10: top/experimental/brand."

\* faulty variant of Actions: the de-prioritize line is pushed before the
\* hashtag line
Actions_LowTypeBeforeTags(typeScores, bestHours, topHashtags, nRows) ==
    (IF Len(typeScores) > 0
      THEN <<ActionLine(DoubleDown, typeScores[1].type, <<>>, <<>>, 0)>> ELSE <<>>)
    \o (IF Len(bestHours) > 0
      THEN <<ActionLine(PostAt, "", bestHours, <<>>, 0)>> ELSE <<>>)
    \o (LET lowTypes == SliceLast(typeScores)
        IN  IF Len(lowTypes) > 0
            THEN <<ActionLine(Deprioritize, lowTypes[1].type, <<>>, <<>>, 0)>> ELSE <<>>)
    \o (IF Len(topHashtags) > 0
      THEN <<ActionLine(UseTags, "", <<>>, SliceHead(topHashtags, TagsInAction), 0)>> ELSE <<>>)
    \o <<ActionLine(Publish, "", <<>>, <<>>, PlannedCadence(nRows))>>

\* lines 75-84
Actions(typeScores, bestHours, topHashtags, nRows) ==
    (IF Len(typeScores) > 0
      THEN <<ActionLine(DoubleDown, typeScores[1].type, <<>>, <<>>, 0)>> ELSE <<>>)
    \o (IF Len(bestHours) > 0
      THEN <<ActionLine(PostAt, "", bestHours, <<>>, 0)>> ELSE <<>>)
    \o (IF Len(topHashtags) > 0
      THEN <<ActionLine(UseTags, "", <<>>, SliceHead(topHashtags, TagsInAction), 0)>> ELSE <<>>)
    \o (LET lowTypes == SliceLast(typeScores)
        IN  IF Len(lowTypes) > 0
            THEN <<ActionLine(Deprioritize, lowTypes[1].type, <<>>, <<>>, 0)>> ELSE <<>>)
    \o <<ActionLine(Publish, "", <<>>, <<>>, PlannedCadence(nRows))>>

-----------------------------------------------------------------------------
(* Responses *)

NoDiagnostics == [byHour |-> {}, byType |-> {}, typeScores |-> <<>>, hashtagLeaders |-> <<>>]

\* no response sent yet
NoResponse ==
    [status |-> 0, keys |-> {}, error |-> "", bestHours |-> <<>>, topHashtags |-> <<>>,
     actions |-> <<>>, diagnostics |-> NoDiagnostics]

\* NextResponse.json({ error }, { status })
ErrorResponse(status, message) ==
    [NoResponse EXCEPT !.status = status, !.keys = {"error"}, !.error = message]

StatusOk == 200

StatusBadRequest == 400

StatusInternal == 500

\* lines 63-93
Analysis(working, hours, types, stats) ==
    LET bestHours == BestHours(hours)
        typeScores == TypeScores(types)
        topHashtags == TopHashtags(stats)
    IN  [status |-> StatusOk,
         keys |-> {"bestHours", "topHashtags", "actions", "diagnostics"},
         error |-> "",
         bestHours |-> bestHours,
         topHashtags |-> topHashtags,
         actions |-> Actions(typeScores, bestHours, topHashtags, Len(working)),
         diagnostics |-> [byHour |-> ObjectFromEntries(hours),
                          byType |-> ObjectFromEntries(types),
                          typeScores |-> typeScores,
                          hashtagLeaders |-> HashtagLeaders(stats)]]

-----------------------------------------------------------------------------
(* The requests of the model *)

TagAi == <<"a", "i">>

TagEdit == <<"e", "d", "i", "t">>

\* rows that differ in every field the handler reads: hours inside and outside
\* 0..23, missing, fractional and textual; content types present, empty and
\* missing; tags that differ in case, '#' and blanks; views that are zero, equal,
\* missing or no number
RowPool ==
    { MetricRow(JsNumber(18), JsString("short"), <<TagAi, TagEdit>>, JsNumber(12000), 1300, 120, 80),
      MetricRow(JsNumber(12), JsString("short"), <<<<"#", "A", "I">>>>, JsNumber(6000), 430, 32, 20),
      MetricRow(JsNumber(-5), JsString(""), <<<<" ", "A", "i", " ">>, <<"#", " ">>, TagAi>>,
                JsNumber(6000), 430, 32, 20),
      MetricRow(JsNumber(99), JsString("long"), <<>>, JsNumber(0), 5, 0, 1),
      [MetricRow(JsString("abc"), JsUndefined, <<>>, JsNumber(4500), 380, 55, 10)
         EXCEPT !.hashtags = [t |-> "undefined", a |-> <<>>]],
      MetricRow(JsNumberAndHalf(12), JsString("long"), <<TagEdit, <<>>>>, JsNumber(9000), 0, 0, 0),
      MetricRow(JsUndefined, JsString("image"), <<<<"#", "e", "D", "i", "t", "#">>>>,
                JsNumber(9000), 0, 0, 0),
      MetricRow(JsNumber(7), JsString("short"), <<TagAi>>, JsString("900"), 1, 1, 1),
      NullRow }

\* rows for the hour ranking: more hours than the ranking keeps, rates that
\* are equal across buckets, a bucket fed by two different hours
HourPool ==
    { MetricRow(JsNumber(18), JsString("short"), <<>>, JsNumber(12000), 0, 0, 0),
      MetricRow(JsNumber(12), JsString("short"), <<>>, JsNumber(6000), 0, 0, 0),
      MetricRow(JsNumber(0), JsString("short"), <<>>, JsNumber(6000), 0, 0, 0),
      MetricRow(JsNumber(-5), JsString("short"), <<>>, JsNumber(1), 0, 0, 0),
      MetricRow(JsString("18"), JsString("short"), <<>>, JsNumber(0), 0, 0, 0),
      MetricRow(JsNumber(23), JsString("short"), <<>>, JsNumber(12000), 0, 0, 0) }

\* one-letter tags number from..to of the alphabet
Letters(from, to) == [j \in 1..(to - from + 1) |-> <<LowerCase[from + j - 1]>>]

\* rows for the hashtag rankings and the action plan: more tags than either
\* ranking keeps, a tag (b) whose total views equal those of later tags while
\* its views per use are lower, tags written with '#', capitals and blanks,
\* a row without tags, several content types
TagPool ==
    { MetricRow(JsNumber(9), JsString("short"), Letters(1, 11), JsNumber(10), 1, 0, 0),
      MetricRow(JsNumber(9), JsString("short"), Letters(12, 22), JsNumber(40), 2, 1, 0),
      MetricRow(JsNumber(20), JsString("long"),
                <<<<"#", "A">>, <<"b", " ">>>> \o Letters(23, 24) \o Letters(1, 1),
                JsNumber(30), 9, 0, 1),
      MetricRow(JsNumber(7), JsString(""), <<>>, JsNumber(30), 0, 0, 0) }

\* one plain row, repeated, for the cadence
CadencePool ==
    { MetricRow(JsNumber(9), JsString("short"), <<TagAi>>, JsNumber(100), 10, 1, 1) }

\* the lists of at most n rows of S
ListsUpTo(S, n) == UNION {[1..k -> S] : k \in 0..n}

\* the bodies that hold one of the lists, and those whose rows is no list
Bodies(lists) ==
    {[kind |-> "array", rows |-> l] : l \in lists}
    \cup {[kind |-> k, rows |-> <<>>] : k \in NonListKinds}

-----------------------------------------------------------------------------
(* The handler *)

InitWith(lists) ==
    /\ pc = "start"
    /\ body \in Bodies(lists)
    /\ rows = <<>>
    /\ idx = 0
    /\ byHour = <<>>
    /\ byType = <<>>
    /\ hashtagStats = <<>>
    /\ response = NoResponse

Init == InitWith(ListsUpTo(RowPool, MaxRows))

InitHours == InitWith(ListsUpTo(HourPool, MaxHourRows))

InitTags == InitWith(ListsUpTo(TagPool, MaxTagRows))

InitCadence == InitWith(ListsUpTo(CadencePool, MaxCadenceRows))

\* lines 30-31 throw: req.json() fails, or rows is truthy and has no filter
Throws(b) == b.kind = "badjson" \/ ~HasFilter(b.kind)

\* line 95: e?.message || "Unexpected error"
ErrorMessage(b) ==
    IF b.kind = "badjson" THEN "Unexpected token in JSON"
    ELSE "(intermediate value).filter is not a function"

\* lines 29-31 throw and line 95 answers
PostThrows ==
    /\ pc = "start"
    /\ Throws(body)
    /\ response' = ErrorResponse(StatusInternal, ErrorMessage(body))
    /\ pc' = "done"
    /\ UNCHANGED <<body, rows, idx, byHour, byType, hashtagStats>>

\* lines 30-32: no working row
PostRejects ==
    /\ pc = "start"
    /\ ~Throws(body)
    /\ FilterRows(RowsOrEmpty(body)) = <<>>
    /\ rows' = FilterRows(RowsOrEmpty(body))
    /\ response' = ErrorResponse(StatusBadRequest, "No data provided")
    /\ pc' = "done"
    /\ UNCHANGED <<body, idx, byHour, byType, hashtagStats>>

\* lines 30-36: the working set is not empty, the maps are created
PostAccepts ==
    /\ pc = "start"
    /\ ~Throws(body)
    /\ FilterRows(RowsOrEmpty(body)) # <<>>
    /\ rows' = FilterRows(RowsOrEmpty(body))
    /\ idx' = 1
    /\ byHour' = <<>>
    /\ byType' = <<>>
    /\ hashtagStats' = <<>>
    /\ pc' = "aggregate"
    /\ UNCHANGED <<body, response>>

\* lines 38-61: one turn of the loop over the working set
PostAggregatesRow ==
    /\ pc = "aggregate"
    /\ idx <= Len(rows)
    /\ byHour' = AddHour(byHour, rows[idx])
    /\ byType' = AddType(byType, rows[idx])
    /\ hashtagStats' = AddTags(hashtagStats, TagsOf(rows[idx]), rows[idx].views.n)
    /\ idx' = idx + 1
    /\ UNCHANGED <<pc, body, rows, response>>

\* lines 63-93: the loop is over
PostResponds ==
    /\ pc = "aggregate"
    /\ idx > Len(rows)
    /\ response' = Analysis(rows, byHour, byType, hashtagStats)
    /\ pc' = "done"
    /\ UNCHANGED <<body, rows, idx, byHour, byType, hashtagStats>>

Next ==
    \/ PostThrows
    \/ PostRejects
    \/ PostAccepts
    \/ PostAggregatesRow
    \/ PostResponds

Spec == Init /\ [][Next]_vars

SpecHours == InitHours /\ [][Next]_vars

SpecTags == InitTags /\ [][Next]_vars

SpecCadence == InitCadence /\ [][Next]_vars

-----------------------------------------------------------------------------
(* Helpers of the properties *)

\* the sum of a sequence of numbers
RECURSIVE SumSeq(_)
SumSeq(q) == IF q = <<>> THEN 0 ELSE Head(q) + SumSeq(Tail(q))

\* the handler has answered with a full result
Succeeded == pc = "done" /\ response.status = StatusOk

\* the rows the loop has been through
Processed == IF pc = "start" THEN <<>> ELSE SubSeq(rows, 1, idx - 1)

\* row r of the request is an object whose views is a number
NumericViewsRow(r) == r.obj /\ r.views.t = "number"

\* the tags row r lists
ListedTags(r) == IF r.hashtags.t = "array" THEN r.hashtags.a ELSE <<>>

\* how many tags of row r have key k
Occurrences(r, k) ==
    Cardinality({j \in 1..Len(ListedTags(r)) : NormalizeTag(ListedTags(r)[j]) = k})

\* position of key k in map m
PositionOf(m, k) == CHOOSE j \in 1..Len(m) : m[j].key = k

\* no key twice
DistinctKeys(m) == \A p, q \in 1..Len(m) : m[p].key = m[q].key => p = q

Min(a, b) == IF a < b THEN a ELSE b

-----------------------------------------------------------------------------
(* C1 *)

\* C1: a request whose rows list is empty, or holds no row with a numeric
\* views field, is answered with status 400 and a body that holds the error
\* message alone; nothing has been aggregated.
C1_NoUsableRowIsBadRequest ==
    (/\ pc = "done"
     /\ body.kind = "array"
     /\ \A j \in 1..Len(body.rows) : ~NumericViewsRow(body.rows[j]))
    => /\ response = ErrorResponse(StatusBadRequest, "No data provided")
       /\ response.keys = {"error"}
       /\ response.bestHours = <<>> /\ response.topHashtags = <<>>
       /\ response.actions = <<>> /\ response.diagnostics = NoDiagnostics
       /\ byHour = <<>> /\ byType = <<>> /\ hashtagStats = <<>> /\ idx = 0

\* a list of two rows, none with numeric views, has been rejected
C1_Witness ==
    /\ pc = "done"
    /\ body.kind = "array"
    /\ Len(body.rows) = 2
    /\ \E j \in 1..2 : body.rows[j].obj /\ body.rows[j].views.t = "string"
    /\ \A j \in 1..2 : ~NumericViewsRow(body.rows[j])
    /\ response.status = StatusBadRequest

-----------------------------------------------------------------------------
(* C2 *)

\* C2: a request whose rows field is present and no list is answered with the
\* bad-request status 400, not with the internal status 500.
C2_NonListIsBadRequest ==
    (pc = "done" /\ body.kind \notin {"array", "absent", "badjson"})
    => response.status = StatusBadRequest

-----------------------------------------------------------------------------
(* C3 *)

\* the hour fields for which the bucket is named: a number below 0, a number
\* above 23, a missing field, a field that is no number and spells none
HourNamed(r) ==
    \/ r.hour.t = "undefined"
    \/ r.hour.t = "string" /\ r.hour.s \notin {"7", "18"}
    \/ r.hour.t = "number" /\ r.hour.n < 0
    \/ r.hour.t = "number" /\ (r.hour.n > 23 \/ (r.hour.n = 23 /\ r.hour.half))

\* the bucket named for such an hour field
NamedBucket(r) == IF r.hour.t = "number" /\ r.hour.n >= 23 THEN Num(23) ELSE Num(0)

\* C3: every row aggregated is counted in one hour bucket, whose key is an
\* integer in 0..23, whatever the row's hour field holds: bucket 0 for an
\* hour below 0 and for a missing or non-numeric hour, bucket 23 for an hour
\* above 23; so every key of diagnostics.byHour is an integer in 0..23.
C3_HourKeysInRange ==
    /\ \A j \in 1..Len(byHour) :
         ~byHour[j].key.nan /\ ~byHour[j].key.half /\ byHour[j].key.n \in 0..23
    /\ \A e \in response.diagnostics.byHour :
         ~e.key.nan /\ ~e.key.half /\ e.key.n \in 0..23
    /\ SumSeq([j \in 1..Len(byHour) |-> byHour[j].val.posts]) = Len(Processed)
    /\ \A j \in 1..Len(Processed) :
         HourNamed(Processed[j]) => MapHas(byHour, NamedBucket(Processed[j]))

-----------------------------------------------------------------------------
(* C4 *)

\* C4: the working set is the rows of the request that have numeric views, in
\* their order; after each turn of the aggregation loop, and so at its end, the
\* hour buckets' posts sum to the number of rows aggregated and their views to
\* those rows' views, the same for the type buckets, and each hashtag bucket's
\* uses is the number of tags of those rows with its key, its views the row's
\* views once per such tag; every such tag with a non-empty key has a bucket.
C4_AggregatesConserveInput ==
    (pc # "start" /\ response.status # StatusInternal) =>
      LET done == Processed
          viewsOf == [j \in 1..Len(done) |-> done[j].views.n]
      IN  /\ rows = SelectSeq(body.rows, NumericViewsRow)
          /\ DistinctKeys(byHour) /\ DistinctKeys(byType) /\ DistinctKeys(hashtagStats)
          /\ SumSeq([j \in 1..Len(byHour) |-> byHour[j].val.posts]) = Len(done)
          /\ SumSeq([j \in 1..Len(byHour) |-> byHour[j].val.views]) = SumSeq(viewsOf)
          /\ SumSeq([j \in 1..Len(byType) |-> byType[j].val.posts]) = Len(done)
          /\ SumSeq([j \in 1..Len(byType) |-> byType[j].val.views]) = SumSeq(viewsOf)
          /\ \A e \in 1..Len(hashtagStats) :
               /\ hashtagStats[e].val.uses =
                    SumSeq([j \in 1..Len(done) |-> Occurrences(done[j], hashtagStats[e].key)])
               /\ hashtagStats[e].val.views =
                    SumSeq([j \in 1..Len(done) |->
                              viewsOf[j] * Occurrences(done[j], hashtagStats[e].key)])
          /\ \A j \in 1..Len(done) : \A t \in 1..Len(ListedTags(done[j])) :
               NormalizeTag(ListedTags(done[j])[t]) # <<>>
                 => MapHas(hashtagStats, NormalizeTag(ListedTags(done[j])[t]))
          /\ Succeeded =>
               /\ Len(done) = Len(rows)
               /\ response.diagnostics.byHour = {byHour[j] : j \in 1..Len(byHour)}
               /\ response.diagnostics.byType = {byType[j] : j \in 1..Len(byType)}

\* an analysis has ended in which a row was dropped and the one working row
\* fed one hashtag bucket twice
C4_Witness ==
    /\ Succeeded
    /\ Len(rows) = 1 /\ Len(body.rows) = 3
    /\ \E e \in 1..Len(hashtagStats) : hashtagStats[e].val.uses = 2

-----------------------------------------------------------------------------
(* C5 *)

\* the views-per-post rate of the hour bucket with key k
HourRate(k) ==
    LET v == byHour[PositionOf(byHour, k)].val IN safeRate(v.views, v.posts)

\* the first working row counted in the hour bucket with key k
FirstRowAt(k) == CHOOSE j \in 1..Len(rows) :
    HourKey(rows[j]) = k /\ \A b \in 1..(j - 1) : HourKey(rows[b]) # k

\* the two rows of the example: hours 18 and 12 with views 12000 and 6000
ExampleRows(list) ==
    /\ Len(list) = 2
    /\ {<<list[j].hour, list[j].views>> : j \in 1..2}
         = {<<JsNumber(18), JsNumber(12000)>>, <<JsNumber(12), JsNumber(6000)>>}

\* C5: bestHours has min(3, number of hour buckets) entries, all of them
\* different keys of hour buckets, in descending order of views-per-post rate,
\* keys of equal rate in the order in which their buckets were created, which
\* is the order of the first rows counted in them; no bucket left out would
\* come before one that is listed. Rows at hours 18 and 12 with views 12000
\* and 6000 give bestHours = [18, 12].
C5_BestHoursRanked ==
    Succeeded =>
      LET best == response.bestHours
          Before(h, k) ==
              \/ HourRate(h) > HourRate(k)
              \/ HourRate(h) = HourRate(k) /\ PositionOf(byHour, h) < PositionOf(byHour, k)
      IN  /\ Len(best) = Min(TopHours, Len(byHour))
          /\ \A p \in 1..Len(best) : best[p] \in MapKeys(byHour)
          /\ \A p, q \in 1..Len(best) : p < q => best[p] # best[q] /\ Before(best[p], best[q])
          /\ \A k \in MapKeys(byHour) :
               (\A p \in 1..Len(best) : best[p] # k) => Before(best[Len(best)], k)
          /\ \A h, k \in MapKeys(byHour) :
               PositionOf(byHour, h) < PositionOf(byHour, k)
                 <=> FirstRowAt(h) < FirstRowAt(k)
          /\ ExampleRows(rows) => best = <<Num(18), Num(12)>>

\* four hour buckets, of which the three best are listed, two of them with the
\* same rate, while two buckets of equal rate compete for the last place
C5_Witness ==
    /\ Succeeded
    /\ Len(byHour) = 4
    /\ Len(response.bestHours) = 3
    /\ HourRate(response.bestHours[1]) = HourRate(response.bestHours[2])
    /\ \E k \in MapKeys(byHour) :
         /\ \A p \in 1..3 : response.bestHours[p] # k
         /\ HourRate(k) = HourRate(response.bestHours[3])

-----------------------------------------------------------------------------
(* C6 *)

\* the content type under which row r is counted
TypeOfRow(r) ==
    IF r.contentType.t = "string" /\ r.contentType.s # "" THEN r.contentType.s ELSE "unknown"

\* the line of the plan with template tpl, if there is one
LinesWith(tpl) == {j \in 1..Len(response.actions) : response.actions[j].tpl = tpl}

\* C6: typeScores has one entry for each content type of the working rows,
\* "unknown" standing for an empty or missing type, in descending order of
\* score; the first entry is the type of the "Double down" line and the last
\* the type of the "De-prioritize" line.
C6_TypeScoresRanked ==
    Succeeded =>
      LET ts == response.diagnostics.typeScores
      IN  /\ {ts[j].type : j \in 1..Len(ts)} = {TypeOfRow(rows[j]) : j \in 1..Len(rows)}
          /\ Len(ts) = Cardinality({TypeOfRow(rows[j]) : j \in 1..Len(rows)})
          /\ \A p, q \in 1..Len(ts) : p < q => ~DecGreater(ts[q].score, ts[p].score)
          /\ \E j \in LinesWith(DoubleDown) : response.actions[j].type = ts[1].type
          /\ \E j \in LinesWith(Deprioritize) : response.actions[j].type = ts[Len(ts)].type
          /\ Cardinality(LinesWith(DoubleDown)) = 1
          /\ Cardinality(LinesWith(Deprioritize)) = 1

\* three types, one of them "unknown" for a row without content type, with
\* different scores
C6_Witness ==
    /\ Succeeded
    /\ Len(response.diagnostics.typeScores) = 3
    /\ \E j \in 1..Len(rows) : ~Truthy(rows[j].contentType)
    /\ \E j \in 1..3 : response.diagnostics.typeScores[j].type = "unknown"
    /\ DecGreater(response.diagnostics.typeScores[1].score,
                  response.diagnostics.typeScores[3].score)

-----------------------------------------------------------------------------
(* C7 *)

\* the views-per-use rate of the hashtag bucket with key k
TagRate(k) ==
    LET v == hashtagStats[PositionOf(hashtagStats, k)].val IN safeRate(v.views, v.uses)

\* C7: topHashtags lists min(15, number of hashtag buckets) different bucket
\* keys, none holding a '#', in descending order of views per use, and
\* hashtagLeaders lists min(20, number of buckets) different buckets in
\* descending order of total views; in each list, entries that are equal in
\* that list's own measure stand in the order in which their buckets were
\* created, whatever the other list's order, and no bucket left out would come
\* before one that is listed.
C7_TwoHashtagRankings ==
    Succeeded =>
      LET top == response.topHashtags
          lead == response.diagnostics.hashtagLeaders
          n == Len(hashtagStats)
          ByRate(h, k) ==
              \/ TagRate(h) > TagRate(k)
              \/ TagRate(h) = TagRate(k)
                   /\ PositionOf(hashtagStats, h) < PositionOf(hashtagStats, k)
          ByViews(d, e) ==
              \/ d.val.views > e.val.views
              \/ d.val.views = e.val.views
                   /\ PositionOf(hashtagStats, d.key) < PositionOf(hashtagStats, e.key)
      IN  /\ Len(top) = Min(TopTags, n)
          /\ Len(top) <= 15
          /\ \A p \in 1..Len(top) :
               top[p] \in MapKeys(hashtagStats) /\ \A c \in 1..Len(top[p]) : top[p][c] # "#"
          /\ \A p, q \in 1..Len(top) : p < q => top[p] # top[q] /\ ByRate(top[p], top[q])
          /\ \A k \in MapKeys(hashtagStats) :
               (\A p \in 1..Len(top) : top[p] # k) => ByRate(top[Len(top)], k)
          /\ Len(lead) = Min(LeaderTags, n)
          /\ Len(lead) <= 20
          /\ \A p \in 1..Len(lead) : \E j \in 1..n : hashtagStats[j] = lead[p]
          /\ \A p, q \in 1..Len(lead) : p < q => ByViews(lead[p], lead[q])
          /\ \A j \in 1..n :
               (\A p \in 1..Len(lead) : lead[p] # hashtagStats[j])
                 => ByViews(lead[Len(lead)], hashtagStats[j])

\* more than 20 buckets, of which 15 and 20 are listed; the two lists start
\* with different tags, and two buckets of equal total views stand in the
\* leaders in one order and in topHashtags in the other
C7_Witness ==
    /\ Succeeded
    /\ Len(hashtagStats) > 20
    /\ Len(response.topHashtags) = 15
    /\ Len(response.diagnostics.hashtagLeaders) = 20
    /\ response.topHashtags[1] # response.diagnostics.hashtagLeaders[1].key
    /\ \E p, q \in 1..20 :
         LET d == response.diagnostics.hashtagLeaders[p]
             e == response.diagnostics.hashtagLeaders[q]
         IN  /\ p < q
             /\ d.val.views = e.val.views
             /\ TagRate(e.key) > TagRate(d.key)
             /\ \E x, y \in 1..15 : /\ x < y
                                    /\ response.topHashtags[x] = e.key
                                    /\ response.topHashtags[y] = d.key

-----------------------------------------------------------------------------
(* C8 *)

\* the tags of the rows of the request
TagsOfRequest ==
    UNION {{ListedTags(body.rows[j])[t] : t \in 1..Len(ListedTags(body.rows[j]))} :
             j \in 1..Len(body.rows)}

\* tag h holds a character that is neither '#' nor whitespace
HasTagCharacter(h) == \E c \in 1..Len(h) : h[c] \notin {"#", " ", "\t", "\n"}

\* C8: normalizing a normalized tag changes nothing; the key of every hashtag
\* bucket is not empty and holds no '#', no whitespace and no capital letter;
\* the tags "#AI", " Ai " and "ai" are counted in the one bucket "ai"; the
\* buckets' uses sum to the number of tags that hold some character other than
\* '#' and whitespace, so that a tag without one is counted nowhere.
C8_NormalizedKeys ==
    /\ \A h \in TagsOfRequest : NormalizeTag(NormalizeTag(h)) = NormalizeTag(h)
    /\ \A e \in 1..Len(hashtagStats) :
         /\ hashtagStats[e].key # <<>>
         /\ NormalizeTag(hashtagStats[e].key) = hashtagStats[e].key
         /\ \A c \in 1..Len(hashtagStats[e].key) :
              /\ hashtagStats[e].key[c] \notin {"#", " ", "\t", "\n"}
              /\ \A u \in 1..Len(UpperCase) : hashtagStats[e].key[c] # UpperCase[u]
    /\ DistinctKeys(hashtagStats)
    /\ LET done == Processed
           AiSpellings == {<<"#", "A", "I">>, <<" ", "A", "i", " ">>, <<"a", "i">>}
           Spelled(r, S) ==
               Cardinality({t \in 1..Len(ListedTags(r)) : ListedTags(r)[t] \in S})
           Counted(r) ==
               Cardinality({t \in 1..Len(ListedTags(r)) : HasTagCharacter(ListedTags(r)[t])})
       IN  /\ SumSeq([e \in 1..Len(hashtagStats) |-> hashtagStats[e].val.uses])
                = SumSeq([j \in 1..Len(done) |-> Counted(done[j])])
           /\ \A e \in 1..Len(hashtagStats) :
                hashtagStats[e].key = <<"a", "i">> =>
                  hashtagStats[e].val.uses
                    = SumSeq([j \in 1..Len(done) |-> Spelled(done[j], AiSpellings)])

\* the three spellings of "ai" have been counted in one bucket, four uses in
\* all, and a tag made of '#' and a blank has been passed over
C8_Witness ==
    /\ Succeeded
    /\ \E e \in 1..Len(hashtagStats) :
         hashtagStats[e].key = <<"a", "i">> /\ hashtagStats[e].val.uses = 4
    /\ {<<"#", "A", "I">>, <<" ", "A", "i", " ">>, <<"a", "i">>, <<"#", " ">>}
         \subseteq UNION {{ListedTags(rows[j])[t] : t \in 1..Len(ListedTags(rows[j]))} :
                            j \in 1..Len(rows)}

-----------------------------------------------------------------------------
(* C9 *)

\* the last line of the plan
LastAction == response.actions[Len(response.actions)]

\* C9: the last line of the plan is the cadence line, and its number c, for n
\* working rows, is clamp(round(0.6 n), 5, 14): 5 when 0.6 n is below 5.5, 14
\* from 13.5 on, and in between the integer nearest to 0.6 n; it lies in 5..14,
\* is no smaller than the cadence of any smaller number of rows, and is 5 for
\* 1 and 2 rows, 6 for 10 rows and 14 for 100 rows.
C9_CadenceClamped ==
    Succeeded =>
      LET n == Len(rows)
          c == LastAction.n
      IN  /\ n >= 1
          /\ LastAction.tpl = Publish
          /\ Cardinality(LinesWith(Publish)) = 1
          /\ c \in 5..14
          /\ 6 * n < 55 => c = 5
          /\ 6 * n >= 135 => c = 14
          /\ (55 <= 6 * n /\ 6 * n < 135) => (10 * c - 5 <= 6 * n /\ 6 * n < 10 * c + 5)
          /\ \A m \in 1..n : PlannedCadence(m) <= c
          /\ n = 1 => c = 5
          /\ n = 2 => c = 5
          /\ n = 10 => c = 6
          /\ n = 100 => c = 14

\* an analysis of 100 rows has planned 14 posts
C9_Witness == Succeeded /\ Len(rows) = 100 /\ LastAction.tpl = Publish /\ LastAction.n = 14

-----------------------------------------------------------------------------
(* C10 *)

\* the place of a template in the fixed order of the plan
PlaceOfLine(tpl) ==
    CASE tpl = DoubleDown -> 1
      [] tpl = PostAt -> 2
      [] tpl = UseTags -> 3
      [] tpl = Deprioritize -> 4
      [] tpl = Publish -> 5
      [] OTHER -> 0

\* C10: the lines of the plan are, in this order and each at most once: the
\* double-down line with the first type of the ranking, the hours line with
\* bestHours in its order, the hashtag line with the first 5 of topHashtags in
\* their order, the de-prioritize line with the last type of the ranking, the
\* cadence line; each of the first four is there exactly when its list is not
\* empty, the cadence line always.
C10_ActionsInFixedOrder ==
    Succeeded =>
      LET a == response.actions
          ts == response.diagnostics.typeScores
          best == response.bestHours
          top == response.topHashtags
      IN  /\ \A j \in 1..Len(a) : PlaceOfLine(a[j].tpl) \in 1..5
          /\ \A p, q \in 1..Len(a) : p < q => PlaceOfLine(a[p].tpl) < PlaceOfLine(a[q].tpl)
          /\ (LinesWith(DoubleDown) # {}) <=> (Len(ts) > 0)
          /\ (LinesWith(PostAt) # {}) <=> (Len(best) > 0)
          /\ (LinesWith(UseTags) # {}) <=> (Len(top) > 0)
          /\ (LinesWith(Deprioritize) # {}) <=> (Len(ts) > 0)
          /\ LinesWith(Publish) # {}
          /\ \A j \in LinesWith(DoubleDown) : a[j].type = ts[1].type
          /\ \A j \in LinesWith(PostAt) : a[j].hours = best
          /\ \A j \in LinesWith(UseTags) :
               /\ Len(a[j].tags) = Min(5, Len(top))
               /\ \A t \in 1..Len(a[j].tags) : a[j].tags[t] = top[t]
          /\ \A j \in LinesWith(Deprioritize) : a[j].type = ts[Len(ts)].type

\* a plan of all five lines, for more than 5 ranked hashtags, several hours
\* and two types of different rank
C10_Witness ==
    /\ Succeeded
    /\ Len(response.actions) = 5
    /\ Len(response.topHashtags) > 5
    /\ Len(response.bestHours) > 1
    /\ response.actions[1].type # response.actions[4].type

====
